---- MODULE Spec2Model ----
(***************************************************************************)
(* Model of entrypoint.go: the cross-build action's entry point.  The      *)
(* program reads its configuration from the environment, and for every     *)
(* platform of INPUT_PLATFORMS runs `go build`, optionally followed by     *)
(* cp / tar / rm / sh, and finally lists and walks the destination         *)
(* directory and prints the `files` output.                                *)
(*                                                                         *)
(* Strings are sequences of one-character strings, so that Split,          *)
(* ReplaceAll, ToLower, Sprintf and filepath.Join are computed character   *)
(* by character as the Go library computes them.  The file system is a     *)
(* set of absolute file paths and a set of absolute directory paths.       *)
(* External commands are opaque: each may exit zero or non-zero, and can   *)
(* exit zero only when the files it needs are there.                       *)
(***************************************************************************)
EXTENDS Naturals, Sequences, FiniteSets

\* Number of comma separated elements of INPUT_PLATFORMS that are enumerated.
MaxTargets == 2

\* Number of successive invocations of the program on the same file system.
MaxRuns == 2

------------------------------------------------------------------------------
\* String literals of the source and of the inputs, as character sequences.

StrEmpty == << >>
StrSpace == <<" ">>
StrComma == <<",">>
StrSlash == <<"/">>
StrDash == <<"-">>
StrDot == <<".">>
StrDotSlash == <<".", "/">>
StrExe == <<".", "e", "x", "e">>
StrTarGz == <<".", "t", "a", "r", ".", "g", "z">>
StrWindows == <<"w", "i", "n", "d", "o", "w", "s">>
StrTrue == <<"t", "r", "u", "e">>
StrReadme == <<"R", "E", "A", "D", "M", "E", ".", "m", "d">>
StrLicense == <<"L", "I", "C", "E", "N", "S", "E">>

StrLinux == <<"l", "i", "n", "u", "x">>
StrAmd64 == <<"a", "m", "d", "6", "4">>
StrArm64 == <<"a", "r", "m", "6", "4">>
StrV8 == <<"v", "8">>
StrApp == <<"a", "p", "p">>
StrDist == <<"d", "i", "s", "t">>
StrCmd == <<"c", "m", "d">>
StrLdflags == <<"-", "s">>
StrOld == <<"o", "l", "d">>

\* The characters the model uses, in ascending byte order (sort.Strings order).
AsciiOrder ==
    << " ", ",", "-", ".", "/",
       "0", "1", "2", "3", "4", "5", "6", "7", "8", "9",
       "A", "B", "C", "D", "E", "F", "G", "H", "I", "J", "K", "L", "M",
       "N", "O", "P", "Q", "R", "S", "T", "U", "V", "W", "X", "Y", "Z",
       "a", "b", "c", "d", "e", "f", "g", "h", "i", "j", "k", "l", "m",
       "n", "o", "p", "q", "r", "s", "t", "u", "v", "w", "x", "y", "z" >>

Ord(c) == CHOOSE i \in 1..Len(AsciiOrder) : AsciiOrder[i] = c

UpperCase == {AsciiOrder[i] : i \in Ord("A")..Ord("Z")}

------------------------------------------------------------------------------
\* The Go library functions the program calls.

\* strings.ToLower, one character.
ToLowerChar(c) ==
    IF c \in UpperCase THEN AsciiOrder[Ord(c) + (Ord("a") - Ord("A"))] ELSE c

\* strings.ToLower
ToLower(s) == [i \in 1..Len(s) |-> ToLowerChar(s[i])]

\* strings.ReplaceAll(s, old, "") for a one-character old: every occurrence
\* of old is dropped, wherever it stands.
RECURSIVE ReplaceAll(_, _)
ReplaceAll(s, old) ==
    IF s = << >> THEN << >>
    ELSE IF <<Head(s)>> = old THEN ReplaceAll(Tail(s), old)
    ELSE <<Head(s)>> \o ReplaceAll(Tail(s), old)

\* strings.Split(s, sep) for a one-character sep: n occurrences of sep give
\* n + 1 fields, and the empty string gives one empty field.
RECURSIVE Split(_, _)
Split(s, sep) ==
    IF \A i \in 1..Len(s) : <<s[i]>> # sep THEN <<s>>
    ELSE LET i == CHOOSE k \in 1..Len(s) :
                      /\ <<s[k]>> = sep
                      /\ \A j \in 1..(k - 1) : <<s[j]>> # sep
         IN  <<SubSeq(s, 1, i - 1)>> \o Split(SubSeq(s, i + 1, Len(s)), sep)

\* strings.Join(elems, sep)
RECURSIVE StringsJoin(_, _)
StringsJoin(elems, sep) ==
    IF elems = << >> THEN << >>
    ELSE IF Len(elems) = 1 THEN elems[1]
    ELSE elems[1] \o sep \o StringsJoin(Tail(elems), sep)

\* filepath.Clean on paths without "." and ".." elements: repeated
\* separators collapse and a trailing separator is dropped (the root stays).
RECURSIVE Clean(_)
Clean(p) ==
    IF Len(p) <= 1 THEN p
    ELSE IF p[1] = "/" /\ p[2] = "/" THEN Clean(Tail(p))
    ELSE IF Len(p) = 2 /\ p[2] = "/" THEN <<p[1]>>
    ELSE <<p[1]>> \o Clean(Tail(p))

\* filepath.Join(a, b): empty elements are ignored, the rest are joined by
\* the separator and cleaned; an absolute b is NOT kept absolute.
Join(a, b) ==
    IF a = << >> /\ b = << >> THEN << >>
    ELSE IF a = << >> THEN Clean(b)
    ELSE IF b = << >> THEN Clean(a)
    ELSE Clean(a \o StrSlash \o b)

\* Lexicographic byte order on strings (sort.Strings, used by filepath.Walk).
RECURSIVE StrLess(_, _)
StrLess(a, b) ==
    IF b = << >> THEN FALSE
    ELSE IF a = << >> THEN TRUE
    ELSE IF a[1] = b[1] THEN StrLess(Tail(a), Tail(b))
    ELSE Ord(a[1]) < Ord(b[1])

RECURSIVE SortStrings(_)
SortStrings(S) ==
    IF S = {} THEN << >>
    ELSE LET m == CHOOSE x \in S : \A y \in S \ {x} : StrLess(x, y)
         IN  <<m>> \o SortStrings(S \ {m})

------------------------------------------------------------------------------
\* The operating system's view of paths.

IsAbs(p) == p # << >> /\ p[1] = "/"

\* The directory a process in directory wd means by path p.
Resolve(wd, p) == IF IsAbs(p) THEN Clean(p) ELSE Join(wd, p)

LastSlash(p) ==
    IF \E i \in 1..Len(p) : p[i] = "/"
    THEN CHOOSE i \in 1..Len(p) : p[i] = "/" /\ \A j \in (i + 1)..Len(p) : p[j] # "/"
    ELSE 0

\* The directory part and the name part of an absolute file path.
DirOf(p) == IF LastSlash(p) <= 1 THEN StrSlash ELSE SubSeq(p, 1, LastSlash(p) - 1)
BaseOf(p) == SubSeq(p, LastSlash(p) + 1, Len(p))

\* The names of the files of directory d.
Entries(files, d) == {BaseOf(f) : f \in {g \in files : DirOf(g) = d}}

------------------------------------------------------------------------------
\* The program's pure computations.

\* main: the compress flag (lines 202-205).
ParseCompress(inputCompress) == ToLower(inputCompress) = StrTrue

\* main: the fields of one element of the platforms list (line 211).
PlatformSpec(platform) == Split(ReplaceAll(platform, StrSpace), StrSlash)

\* A binary name without the executable suffix.
BuildFileNameNoExe(inputName, kernel, arch, compressed) ==
    IF compressed THEN inputName
    ELSE inputName \o StrDash \o kernel \o StrDash \o arch

\* build: the name of the binary (lines 53-61).
BuildFileName(inputName, kernel, arch, compressed) ==
    LET name == IF compressed THEN inputName
                ELSE inputName \o StrDash \o kernel \o StrDash \o arch
    IN  IF kernel = StrWindows THEN name \o StrExe ELSE name

\* build: the package argument of `go build` (lines 73-78).
PackagePath(pkg) == IF pkg = << >> THEN StrDot ELSE StrDotSlash \o pkg

\* build: the name of the archive (line 109).
GzFileName(inputName, kernel, arch) ==
    inputName \o StrDash \o kernel \o StrDash \o arch \o StrTarGz

\* fileExists: the result for an os.Stat outcome (lines 24-29).
FileExists(stat) == IF stat # "ok" THEN stat # "notexist" ELSE TRUE

\* build, line 131: the archive name and the members handed to tar.
TarArgs(gz, include) == <<gz>> \o include

\* A cleanup that removes the binary only.
RmBinaryOnly(include) == <<include[1]>>

\* build, line 149: the files handed to `rm -f`.
RmArgs(include) == include

\* tar -r: the members are appended to the archive that is there.
TarAppendTo(old, path, content) ==
    [p \in (DOMAIN old) \cup {path} |->
        IF p = path THEN (IF p \in DOMAIN old THEN old[p] ELSE << >>) \o content ELSE old[p]]

\* tar -c: the archive's content after a successful run.
TarWrite(old, path, content) ==
    [p \in (DOMAIN old) \cup {path} |-> IF p = path THEN content ELSE old[p]]

\* The archives that are still files.
Restrict(arch, files) == [p \in (DOMAIN arch) \cap files |-> arch[p]]

\* filepath.Walk with main's callback, which appends every path it is called
\* with, the root included, and returns nil also when it is called with an
\* error (lines 236-239).  The directories of the model hold plain files only.
WalkFiles(files, directories, wd, root) ==
    IF root = << >> \/ Resolve(wd, root) \notin directories THEN <<root>>
    ELSE LET names == SortStrings(Entries(files, Resolve(wd, root)))
         IN  <<root>> \o [i \in 1..Len(names) |-> Join(root, names[i])]

------------------------------------------------------------------------------
\* The inputs that are enumerated.

Cwd == <<"/", "w">>
OtherRoot == <<"/", "g">>

TargetStrings ==
    { StrLinux \o StrSlash \o StrAmd64,
      StrWindows \o StrSlash \o StrArm64,
      StrSpace \o StrLinux \o StrSlash \o StrAmd64,
      StrWindows,
      StrLinux \o StrSlash \o StrAmd64 \o StrSlash \o StrV8 }

TargetLists == UNION {[1..n -> TargetStrings] : n \in 1..MaxTargets}

CompressInputs ==
    { <<"T", "r", "u", "e">>, <<" ", "t", "r", "u", "e", " ">>,
      <<"f", "a", "l", "s", "e">> }

DestInputs == {StrDist, StrEmpty}

WorkspaceInputs == {Cwd, OtherRoot}

PreStates == {"none", "stale"}

DestDirs == {Join(Cwd, StrDist), Join(OtherRoot, StrDist)}

NoOutput == <<"no output">>

NoPrev == [run |-> 0, fs |-> {}, archives |-> << >>, files |-> NoOutput]

------------------------------------------------------------------------------
VARIABLES
    env,            \* the environment variables of the process
    cwd,            \* the working directory of the process
    fs,             \* the files that exist (absolute paths)
    dirs,           \* the directories that exist (absolute paths)
    archives,       \* the member list of every archive file
    pc,             \* the position of the process in main / build
    run,            \* the number of this invocation
    exitCode,       \* the exit status once the process has ended
    stdout,         \* the value of the `files` output, once printed
    cmds,           \* the external commands run so far by this invocation
    packageName, destDir, platforms, compress, idx,        \* locals of main
    platformMap,                                           \* locals of main
    buildFileName, destDirPath, buildFilePath, packagePath, \* locals of build
    gzFileName, includeFiles,                              \* locals of build
    files,          \* main's list of walked paths
    statErr,        \* the names whose os.Stat failed other than by ENOENT, this target
    fsAtStart,      \* the files at the start of this invocation
    prev            \* what the previous invocation left and printed

mainVars == <<packageName, destDir, platforms, compress, idx, platformMap, files>>
buildVars == <<buildFileName, destDirPath, buildFilePath, packagePath, gzFileName, includeFiles>>
diskVars == <<fs, dirs, archives>>
procVars == <<pc, exitCode, stdout, cmds, statErr>>
runVars == <<env, cwd, run, fsAtStart, prev>>
vars == <<mainVars, buildVars, diskVars, procVars, runVars>>

\* One external command, as exec.Command builds it, and how it ended.
Cmd(tool, args, dir, goos, goarch, ok) ==
    [tool |-> tool, args |-> args, dir |-> dir, goos |-> goos, goarch |-> goarch, ok |-> ok]

InitLocals ==
    /\ packageName = << >> /\ destDir = << >> /\ platforms = << >>
    /\ compress = FALSE /\ idx = 0
    /\ platformMap = [kernel |-> << >>, arch |-> << >>]
    /\ buildFileName = << >> /\ destDirPath = << >> /\ buildFilePath = << >>
    /\ packagePath = << >> /\ gzFileName = << >> /\ includeFiles = << >>
    /\ files = << >>

Init ==
    /\ \E tl \in TargetLists, c \in CompressInputs, d \in DestInputs, w \in WorkspaceInputs :
         env = [ INPUT_PLATFORMS |-> StringsJoin(tl, StrComma),
                 INPUT_PACKAGE |-> StrCmd,
                 INPUT_COMPRESS |-> c,
                 INPUT_DEST |-> d,
                 INPUT_LDFLAGS |-> StrLdflags,
                 INPUT_NAME |-> StrApp,
                 GITHUB_WORKSPACE |-> w ]
    /\ cwd = Cwd
    /\ \E pre \in PreStates, readme \in BOOLEAN, license \in BOOLEAN :
         /\ dirs = {StrSlash, Cwd, OtherRoot} \cup (IF pre = "none" THEN {} ELSE DestDirs)
         /\ fs = (IF readme THEN {Join(Cwd, StrReadme)} ELSE {})
                 \cup (IF license THEN {Join(Cwd, StrLicense)} ELSE {})
                 \cup (IF pre = "stale" THEN {Join(dd, StrOld) : dd \in DestDirs} ELSE {})
    /\ archives = << >>
    /\ pc = "main" /\ run = 1 /\ exitCode = 0 /\ stdout = NoOutput
    /\ cmds = << >> /\ statErr = {}
    /\ InitLocals
    /\ fsAtStart = fs
    /\ prev = NoPrev

------------------------------------------------------------------------------
\* os.Exit(1) after a failed step; a run-time panic ends the process with 2.
Exit(code) == pc' = "exit" /\ exitCode' = code

\* main, lines 186-205: the configuration is read.
MainStart ==
    /\ pc = "main"
    /\ packageName' = ReplaceAll(env.INPUT_PACKAGE, StrSpace)
    /\ destDir' = ReplaceAll(env.INPUT_DEST, StrSpace)
    /\ platforms' = Split(env.INPUT_PLATFORMS, StrComma)
    /\ compress' = ParseCompress(env.INPUT_COMPRESS)
    /\ idx' = 1
    /\ pc' = "loop"
    /\ UNCHANGED <<platformMap, files, buildVars, diskVars, exitCode, stdout, cmds, statErr, runVars>>

\* main, lines 208-217: the next platform is split and put in the map;
\* platformSpec[1] of a one-field slice is an index out of range, a panic.
LoopIter ==
    /\ pc = "loop" /\ idx <= Len(platforms)
    /\ LET platformSpec == PlatformSpec(platforms[idx])
       IN  IF Len(platformSpec) < 2
           THEN Exit(2) /\ UNCHANGED platformMap
           ELSE /\ platformMap' = [kernel |-> platformSpec[1], arch |-> platformSpec[2]]
                /\ pc' = "build"
                /\ UNCHANGED exitCode
    /\ UNCHANGED <<packageName, destDir, platforms, compress, idx, files,
                   buildVars, diskVars, stdout, cmds, statErr, runVars>>

\* main, line 221: the range loop is over.
LoopEnd ==
    /\ pc = "loop" /\ idx > Len(platforms)
    /\ pc' = "ls"
    /\ UNCHANGED <<mainVars, buildVars, diskVars, exitCode, stdout, cmds, statErr, runVars>>

\* build, lines 46-92: names and paths are computed.
BuildSetup ==
    /\ pc = "build"
    /\ buildFileName' = BuildFileName(env.INPUT_NAME, platformMap.kernel, platformMap.arch, compress)
    /\ destDirPath' = Join(env.GITHUB_WORKSPACE, destDir)
    /\ buildFilePath' = Join(destDirPath', buildFileName')
    /\ packagePath' = PackagePath(packageName)
    /\ statErr' = {}
    /\ pc' = "go"
    /\ UNCHANGED <<gzFileName, includeFiles, mainVars, diskVars, exitCode, stdout, cmds, runVars>>

\* build returns to main's loop.
Return == pc' = "loop" /\ idx' = idx + 1

\* build, lines 94-101: `go build`; it writes the output file, making its
\* directory when needed, or fails and leaves the disk as it was.
GoBuild ==
    /\ pc = "go"
    /\ \E ok \in BOOLEAN :
         /\ cmds' = Append(cmds, Cmd("go",
                       <<<<"b","u","i","l","d">>, env.INPUT_LDFLAGS, buildFilePath, packagePath>>,
                       cwd, platformMap.kernel, platformMap.arch, ok))
         /\ IF ok
            THEN /\ fs' = fs \cup {Resolve(cwd, buildFilePath)}
                 /\ dirs' = dirs \cup {DirOf(Resolve(cwd, buildFilePath))}
                 /\ archives' = Restrict(archives, fs' \ {Resolve(cwd, buildFilePath)})
                 /\ IF compress
                    THEN /\ gzFileName' = GzFileName(env.INPUT_NAME, platformMap.kernel, platformMap.arch)
                         /\ includeFiles' = <<buildFileName>>
                         /\ pc' = "statReadme"
                         /\ UNCHANGED idx
                    ELSE /\ Return
                         /\ UNCHANGED <<gzFileName, includeFiles>>
                 /\ UNCHANGED exitCode
            ELSE /\ Exit(1)
                 /\ UNCHANGED <<diskVars, gzFileName, includeFiles, idx>>
    /\ UNCHANGED <<packageName, destDir, platforms, compress, platformMap, files,
                   buildFileName, destDirPath, buildFilePath, packagePath,
                   stdout, statErr, runVars>>

\* What os.Stat can answer for a path: the truth, or an error that is not
\* ENOENT (permission denied on a directory of the absolute path, an I/O error).
StatOutcomes(path) == {"error"} \cup (IF path \in fs THEN {"ok"} ELSE {"notexist"})

\* build, lines 117 and 123 with fileExists (lines 15-30): os.Stat of the
\* ancillary file under the working directory decides whether it is copied.
StatStep(here, name, copy, skip) ==
    /\ pc = here
    /\ \E stat \in StatOutcomes(Join(cwd, name)) :
         /\ statErr' = IF stat = "error" THEN statErr \cup {name} ELSE statErr
         /\ pc' = IF FileExists(stat) THEN copy ELSE skip
    /\ UNCHANGED <<mainVars, buildVars, diskVars, exitCode, stdout, cmds, runVars>>

\* `cp src dest` can succeed only when src is a file, dest is another file
\* and the directory of dest is there.
CanCopy(src, dest) == src \in fs /\ src # dest /\ DirOf(dest) \in dirs

\* build, lines 118-119 and 124-125 with copyFile (lines 33-38).
CopyStep(here, name, next) ==
    /\ pc = here
    /\ LET src == Resolve(cwd, name)
           dest == Resolve(cwd, Join(destDirPath, name))
       IN  \E ok \in {TRUE, FALSE} :
             /\ ok => CanCopy(src, dest)
             /\ cmds' = Append(cmds, Cmd("cp", <<name, Join(destDirPath, name)>>, cwd, << >>, << >>, ok))
             /\ IF ok
                THEN /\ fs' = fs \cup {dest}
                     /\ archives' = Restrict(archives, fs \ {dest})
                     /\ includeFiles' = Append(includeFiles, name)
                     /\ pc' = next
                     /\ UNCHANGED exitCode
                ELSE /\ Exit(1)
                     /\ UNCHANGED <<fs, archives, includeFiles>>
    /\ UNCHANGED <<mainVars, buildFileName, destDirPath, buildFilePath, packagePath,
                   gzFileName, dirs, stdout, statErr, runVars>>

\* The set of the elements of a sequence.
Range(seq) == {seq[i] : i \in 1..Len(seq)}

\* build, lines 131-144: `tar -cvzf gzFileName includeFiles...` in the
\* destination directory.  It can succeed only when every member is there; a
\* failed run leaves the disk as it was or leaves a truncated archive.
Tar ==
    /\ pc = "tar"
    /\ LET dir == Resolve(cwd, destDirPath)
           args == TarArgs(gzFileName, includeFiles)
           target == Join(dir, Head(args))
           members == Tail(args)
       IN  \E ok \in BOOLEAN, left \in BOOLEAN :
             /\ ok => left /\ \A f \in Range(members) : Join(dir, f) \in fs
             /\ left => dir \in dirs
             /\ cmds' = Append(cmds, Cmd("tar", args, destDirPath, << >>, << >>, ok))
             /\ fs' = IF left THEN fs \cup {target} ELSE fs
             /\ archives' = IF ok THEN TarWrite(archives, target, members)
                            ELSE IF left THEN TarWrite(archives, target, << >>)
                            ELSE archives
             /\ IF ok THEN pc' = "rm" /\ UNCHANGED exitCode ELSE Exit(1)
    /\ UNCHANGED <<mainVars, buildVars, dirs, stdout, statErr, runVars>>

\* build, lines 149-159: `rm -f includeFiles...` in the destination
\* directory; a failed run has removed some first members only.
Rm ==
    /\ pc = "rm"
    /\ LET dir == Resolve(cwd, destDirPath)
           args == RmArgs(includeFiles)
       IN  \E ok \in BOOLEAN, n \in 0..Len(args) :
             /\ ok <=> n = Len(args)
             /\ cmds' = Append(cmds, Cmd("rm", args, destDirPath, << >>, << >>, ok))
             /\ fs' = fs \ {Join(dir, args[i]) : i \in 1..n}
             /\ archives' = Restrict(archives, fs')
             /\ IF ok THEN pc' = "md5" /\ UNCHANGED exitCode ELSE Exit(1)
    /\ UNCHANGED <<mainVars, buildVars, dirs, stdout, statErr, runVars>>

\* The diagnostic listing as a best-effort step: its failure is not fatal.
Md5BestEffort ==
    /\ pc = "md5"
    /\ \E ok \in BOOLEAN :
         /\ cmds' = Append(cmds, Cmd("sh", <<>>, destDirPath, << >>, << >>, ok))
         /\ Return /\ UNCHANGED exitCode
    /\ UNCHANGED <<packageName, destDir, platforms, compress, platformMap, files,
                   buildVars, diskVars, stdout, statErr, runVars>>

\* build, lines 164-176: `/bin/sh -c "'pwd && ls -la'"` in the destination
\* directory.  The script is one quoted word, which the shell looks up as a
\* command name; the step changes no file and build returns when it exits zero.
Md5 ==
    /\ pc = "md5"
    /\ \E ok \in BOOLEAN :
         /\ cmds' = Append(cmds, Cmd("sh", <<>>, destDirPath, << >>, << >>, ok))
         /\ IF ok THEN Return /\ UNCHANGED exitCode ELSE Exit(1) /\ UNCHANGED idx
    /\ UNCHANGED <<packageName, destDir, platforms, compress, platformMap, files,
                   buildVars, diskVars, stdout, statErr, runVars>>

\* `ls -alh dir` can succeed only for a directory that is there; the empty
\* path names nothing.
CanList(dir) == dir # << >> /\ Resolve(cwd, dir) \in dirs

\* main, lines 226-232: `ls -alh destDir` in the working directory.
Ls ==
    /\ pc = "ls"
    /\ \E ok \in BOOLEAN :
         /\ ok => CanList(destDir)
         /\ cmds' = Append(cmds, Cmd("ls", <<destDir>>, cwd, << >>, << >>, ok))
         /\ IF ok THEN pc' = "walk" /\ UNCHANGED exitCode ELSE Exit(1)
    /\ UNCHANGED <<mainVars, buildVars, diskVars, stdout, statErr, runVars>>

\* main, lines 234-246: the destination directory is walked and the `files`
\* output is printed; Walk returns no error, as the callback returns none.
Walk ==
    /\ pc = "walk"
    /\ files' = WalkFiles(fs, dirs, cwd, destDir)
    /\ stdout' = files'
    /\ pc' = "done"
    /\ exitCode' = 0
    /\ UNCHANGED <<packageName, destDir, platforms, compress, idx, platformMap,
                   buildVars, diskVars, cmds, statErr, runVars>>

\* The program is invoked again, with the same environment, on the disk that
\* a run which ended with status 0 has left.
Rerun ==
    /\ pc = "done" /\ run < MaxRuns
    /\ prev' = [run |-> run, fs |-> fs, archives |-> archives, files |-> stdout]
    /\ fsAtStart' = fs
    /\ run' = run + 1
    /\ pc' = "main" /\ exitCode' = 0 /\ stdout' = NoOutput
    /\ cmds' = << >> /\ statErr' = {}
    /\ packageName' = << >> /\ destDir' = << >> /\ platforms' = << >>
    /\ compress' = FALSE /\ idx' = 0
    /\ platformMap' = [kernel |-> << >>, arch |-> << >>]
    /\ buildFileName' = << >> /\ destDirPath' = << >> /\ buildFilePath' = << >>
    /\ packagePath' = << >> /\ gzFileName' = << >> /\ includeFiles' = << >>
    /\ files' = << >>
    /\ UNCHANGED <<env, cwd, diskVars>>

Next ==
    \/ MainStart
    \/ LoopIter
    \/ LoopEnd
    \/ BuildSetup
    \/ GoBuild
    \/ StatStep("statReadme", StrReadme, "cpReadme", "statLicense")
    \/ CopyStep("cpReadme", StrReadme, "statLicense")
    \/ StatStep("statLicense", StrLicense, "cpLicense", "tar")
    \/ CopyStep("cpLicense", StrLicense, "tar")
    \/ Tar
    \/ Rm
    \/ Md5
    \/ Ls
    \/ Walk
    \/ Rerun

Spec == Init /\ [][Next]_vars

------------------------------------------------------------------------------
\* What the claims speak of.

\* The number of occurrences of the separator in a target string.
SepCount(t) == Cardinality({i \in 1..Len(t) : t[i] = "/"})

\* A string without its leading and trailing spaces.
RECURSIVE TrimLeft(_)
TrimLeft(s) == IF s # << >> /\ Head(s) = " " THEN TrimLeft(Tail(s)) ELSE s

RECURSIVE TrimRight(_)
TrimRight(s) ==
    IF s # << >> /\ s[Len(s)] = " " THEN TrimRight(SubSeq(s, 1, Len(s) - 1)) ELSE s

Trim(s) == TrimRight(TrimLeft(s))

\* The kernel and the architecture a well-formed target string names.
KernelOf(t) == Trim(SubSeq(t, 1, LastSlash(t) - 1))
ArchOf(t) == Trim(SubSeq(t, LastSlash(t) + 1, Len(t)))

\* The binary's name as the specification gives it for a plain build.
PlainName(kernel, arch) ==
    env.INPUT_NAME \o StrDash \o kernel \o StrDash \o arch
        \o (IF kernel = StrWindows THEN StrExe ELSE << >>)

\* The directory the per-target steps write into.
BuildDir == Join(env.GITHUB_WORKSPACE, destDir)

\* The files the `files` output names, as the working directory resolves them.
Reported == {Resolve(cwd, stdout[i]) : i \in 1..Len(stdout)}

\* The artifact that the completed target t leaves.
ArtifactOf(t) ==
    LET spec == PlatformSpec(t)
    IN  Join(BuildDir,
             IF compress THEN GzFileName(env.INPUT_NAME, spec[1], spec[2])
             ELSE BuildFileName(env.INPUT_NAME, spec[1], spec[2], FALSE))

WellFormed == \A i \in 1..Len(platforms) : SepCount(platforms[i]) = 1

Descriptors == {<<KernelOf(platforms[i]), ArchOf(platforms[i])>> : i \in 1..Len(platforms)}

\* C1: with compress = false, an initially empty destination directory and
\* distinct valid targets, a run that succeeds leaves exactly the files
\* {base}-{kernel}-{arch}[.exe] in the destination directory and the `files`
\* output names exactly those files and nothing else.  Stated for the runs
\* whose workspace root is the working directory, where the directory that is
\* walked is the directory that was written.
C1_EndToEnd ==
    (/\ pc = "done" /\ ~compress /\ WellFormed
     /\ env.GITHUB_WORKSPACE = cwd
     /\ Cardinality(Descriptors) = Len(platforms)
     /\ Entries(fsAtStart, BuildDir) = {})
    => LET expected == {Join(BuildDir, PlainName(d[1], d[2])) : d \in Descriptors}
       IN  /\ {f \in fs : DirOf(f) = BuildDir} = expected
           /\ Reported = expected

\* C2: a target string with zero or two or more separators is rejected: the
\* compile step is never about to run for it.
C2_MalformedRejected ==
    pc \in {"build", "go"} => SepCount(platforms[idx]) = 1

\* C3: when the platforms list holds a malformed target, no compile step is
\* invoked for any target of the run.  Stated for the malformed targets that
\* the program does end on, those without a separator.
C3_ConfigErrorBeforeBuild ==
    (pc # "main" /\ \E i \in 1..Len(platforms) : SepCount(platforms[i]) = 0)
        => \A i \in 1..Len(cmds) : cmds[i].tool # "go"

\* The members the specification gives the archive, for a binary name.
MembersFor(binary) ==
    <<binary>>
        \o (IF Join(cwd, StrReadme) \in fs THEN <<StrReadme>> ELSE << >>)
        \o (IF Join(cwd, StrLicense) \in fs THEN <<StrLicense>> ELSE << >>)

\* The state of the destination directory once a target is packaged.
Packaged(binary) ==
    LET dir == Resolve(cwd, BuildDir)
        gz == Join(dir, env.INPUT_NAME \o StrDash \o platformMap.kernel \o StrDash
                            \o platformMap.arch \o StrTarGz)
    IN  /\ gz \in fs
        /\ archives[gz] = MembersFor(binary)
        /\ \A i \in 1..Len(MembersFor(binary)) : Join(dir, MembersFor(binary)[i]) \notin fs

\* C4 as claimed: once a target is packaged, its archive holds the binary,
\* named {base}, and each of README.md and LICENSE that is in the working
\* directory, and none of them is left in the destination directory.
C4_PackagedAsBase == pc = "md5" => Packaged(env.INPUT_NAME)

\* C4, amended: once a target is packaged, its archive holds the binary, named
\* {base} and {base}.exe for the kernel windows, and each of README.md and
\* LICENSE that is in the working directory, and none of them is left in the
\* destination directory beside the archive.
C4_Packaged ==
    pc = "md5" =>
        Packaged(env.INPUT_NAME \o (IF platformMap.kernel = StrWindows THEN StrExe ELSE << >>))

C4_Witness ==
    /\ pc = "md5" /\ platformMap.kernel = StrWindows
    /\ Len(includeFiles) = 3
    /\ Join(Resolve(cwd, BuildDir), gzFileName) \in fs

\* C5: with compress = false the compile step is given the file name
\* {base}-{kernel}-{arch}, with .exe appended exactly for the kernel windows,
\* and no tar, cp or rm is run.
C5_PlainBuild ==
    ~compress =>
        \A i \in 1..Len(cmds) :
            /\ cmds[i].tool \notin {"tar", "cp", "rm"}
            /\ cmds[i].tool = "go" =>
                 LET t == platforms[Cardinality({j \in 1..i : cmds[j].tool = "go"})]
                 IN  /\ SepCount(t) = 1 =>
                            cmds[i].goos = KernelOf(t) /\ cmds[i].goarch = ArchOf(t)
                     /\ cmds[i].args[3] = Join(BuildDir, PlainName(cmds[i].goos, cmds[i].goarch))

C5_Witness ==
    /\ ~compress /\ pc = "done"
    /\ \E i \in 1..Len(cmds) : cmds[i].tool = "go" /\ cmds[i].goos = StrWindows /\ cmds[i].ok
    /\ \E i \in 1..Len(cmds) : cmds[i].tool = "go" /\ cmds[i].goos = StrLinux /\ cmds[i].ok

\* C6: a step that exits non-zero is the last step of the run: the process
\* has ended with a non-zero status, nothing is printed, and the artifact of
\* every target completed before is still in the destination directory; the
\* `files` output is printed only when every target has completed.
C6_FailFast ==
    /\ \A i \in 1..Len(cmds) :
         ~cmds[i].ok =>
            /\ i = Len(cmds)
            /\ pc = "exit" /\ exitCode # 0
            /\ stdout = NoOutput
            /\ \A j \in 1..(idx - 1) : Resolve(cwd, ArtifactOf(platforms[j])) \in fs
    /\ stdout # NoOutput =>
         /\ pc = "done" /\ exitCode = 0
         /\ idx = Len(platforms) + 1
         /\ \A i \in 1..Len(cmds) : cmds[i].ok
         /\ Cardinality({i \in 1..Len(cmds) : cmds[i].tool = "go"}) = Len(platforms)

C6_Witness ==
    /\ pc = "exit" /\ exitCode = 1 /\ idx = 2 /\ ~compress
    /\ cmds # << >> /\ cmds[Len(cmds)].tool = "go" /\ ~cmds[Len(cmds)].ok
    /\ Resolve(cwd, ArtifactOf(platforms[1])) \in fs

\* C7: when os.Stat of README.md or LICENSE fails for a reason other than
\* non-existence, the run is fatal: no archive is made for that target.
C7_StatErrorFatal == statErr # {} => pc \notin {"rm", "md5"}

\* C8: the compress flag is true exactly when the configured value, stripped
\* of surrounding whitespace and lower-cased, is "true".
C8_CompressParse ==
    pc # "main" => (compress <=> ToLower(Trim(env.INPUT_COMPRESS)) = StrTrue)

C10_SameDirectory ==
    pc = "done" => \A j \in 1..Len(platforms) : Resolve(cwd, ArtifactOf(platforms[j])) \in Reported

====
